---- MODULE Spec2Model ----
(***************************************************************************)
(* A model of reddit-scraper.py: the keyword/date/score filters, the item  *)
(* extractor, the retrying query call, the per-subreddit aggregation, the  *)
(* cross-subreddit dedupe of main() and the incremental CSV persister.     *)
(*                                                                         *)
(* Text (Python str) is a sequence of one-character strings, so that       *)
(* lower(), slicing, substring search and the CSV reader's type inference  *)
(* are computed, not assumed.                                              *)
(***************************************************************************)
EXTENDS Integers, Sequences, FiniteSets, TLC

VARIABLES
    \* safe_api_call
    attempt, waits, errors, api_status, last_exception,
    \* extract_post_data
    submission, epc, idx, top_comments, post_data, replyFaultAt, outerFault,
    \* save_to_csv and the file it owns
    dataset, prevDataset, posts_arg, save_outcome,
    \* main / search_subreddit
    run, mpc, si, ki, posts_data, all_posts_data, unique_posts,
    queried, okRecords, firstFailed

retryVars == <<attempt, waits, errors, api_status, last_exception>>
extractVars == <<submission, epc, idx, top_comments, post_data, replyFaultAt, outerFault>>
saveVars == <<dataset, prevDataset, posts_arg, save_outcome>>
mainVars == <<run, mpc, si, ki, posts_data, all_posts_data, unique_posts,
              queried, okRecords, firstFailed>>
vars == <<retryVars, extractVars, saveVars, mainVars>>

-----------------------------------------------------------------------------
(* Text helpers: Python str operations.                                    *)

LowerChars == <<"a","b","c","d","e","f","g","h","i","j","k","l","m","n","o","p","q","r","s","t","u","v","w","x","y","z">>
UpperChars == <<"A","B","C","D","E","F","G","H","I","J","K","L","M","N","O","P","Q","R","S","T","U","V","W","X","Y","Z">>
DigitChars == <<"0","1","2","3","4","5","6","7","8","9">>

Range(s) == {s[i] : i \in 1..Len(s)}

Min(a, b) == IF a <= b THEN a ELSE b

\* str.lower() / str.upper() on one character
LowerChar(c) ==
    IF \E i \in 1..26 : UpperChars[i] = c
    THEN LowerChars[CHOOSE i \in 1..26 : UpperChars[i] = c]
    ELSE c

UpperChar(c) ==
    IF \E i \in 1..26 : LowerChars[i] = c
    THEN UpperChars[CHOOSE i \in 1..26 : LowerChars[i] = c]
    ELSE c

lower(text) == [i \in 1..Len(text) |-> LowerChar(text[i])]

upper(text) == [i \in 1..Len(text) |-> UpperChar(text[i])]

\* `needle in text`
Contains(needle, text) ==
    \E off \in 0..(Len(text) - Len(needle)) :
        SubSeq(text, off + 1, off + Len(needle)) = needle

\* text[:n]
Prefix(text, n) == SubSeq(text, 1, Min(Len(text), n))

\* str(n) for an integer n
RECURSIVE NatText(_)
NatText(n) ==
    IF n < 10 THEN <<DigitChars[n + 1]>>
    ELSE NatText(n \div 10) \o <<DigitChars[(n % 10) + 1]>>

IntText(n) == IF n < 0 THEN <<"-">> \o NatText(0 - n) ELSE NatText(n)

\* str(x) for a float x holding a whole number of seconds
FloatText(n) == IntText(n) \o <<".", "0">>

\* Optional values: None is <<>>, a value v is <<v>>
None == <<>>
Some(v) == <<v>>

-----------------------------------------------------------------------------
(* CONFIG                                                                  *)

subreddits == <<
    <<"G","l","o","b","a","l","O","f","f","e","n","s","i","v","e">>,
    <<"c","s","g","o">>,
    <<"C","S","2">>,
    <<"g","a","m","i","n","g">>,
    <<"S","t","e","a","m">> >>

keywords == <<
    <<"c","a","s","e"," ","o","p","e","n","i","n","g">>,
    <<"g","a","m","b","l","i","n","g">>,
    <<"l","o","o","t"," ","b","o","x">>,
    <<"l","o","o","t","b","o","x">>,
    <<"a","d","d","i","c","t","i","o","n">>,
    <<"s","k","i","n"," ","g","a","m","b","l","i","n","g">>,
    <<"c","a","s","e"," ","u","n","b","o","x","i","n","g">>,
    <<"c","s","g","o"," ","c","a","s","e">>,
    <<"c","s","2"," ","c","a","s","e">> >>

\* datetime(2024, 11, 8, tzinfo=utc).timestamp() and datetime(2025, 11, 8, ...)
start_date == 1731024000
end_date == 1762560000
min_upvotes == 5
max_retries == 3
retry_delay == 5

-----------------------------------------------------------------------------
(* safe_api_call: one call of func per attempt, with the wait the handler  *)
(* of the raised exception applies.                                        *)

RateLimitWord == <<"R","A","T","E","_","L","I","M","I","T">>
Code429 == <<"4","2","9">>

\* The failures func may raise, by exception class and message.
ApiErrors == {
    [type |-> "RedditAPIException",
     msg |-> <<"R","A","T","E","L","I","M","I","T",":"," ","t","o","o"," ","m","u","c","h">>],
    [type |-> "RedditAPIException",
     msg |-> <<"r","a","t","e","_","l","i","m","i","t"," ","h","i","t">>],
    [type |-> "RedditAPIException",
     msg |-> <<"r","e","c","e","i","v","e","d"," ","4","2","9">>],
    [type |-> "RedditAPIException",
     msg |-> <<"S","U","B","R","E","D","D","I","T","_","N","O","E","X","I","S","T">>],
    [type |-> "ClientException", msg |-> <<"b","a","d"," ","a","r","g">>],
    [type |-> "Exception", msg |-> <<"t","i","m","e","o","u","t">>] }

\* "RATE_LIMIT" in error_message.upper() or "429" in error_message
IsRateLimit(msg) == Contains(RateLimitWord, upper(msg)) \/ Contains(Code429, msg)

\* (variant) the same wait after every attempt
RetryWaitFlat(e, a) ==
    IF e.type = "RedditAPIException"
    THEN IF IsRateLimit(e.msg) THEN retry_delay ELSE 0
    ELSE retry_delay

\* the wait slept by the except clause that handles e on 0-based attempt a
\* (0: the clause does not sleep); rate_limit_delay() precedes every call of
\* func and is not part of it
RetryWait(e, a) ==
    IF e.type = "RedditAPIException"
    THEN IF IsRateLimit(e.msg) THEN retry_delay * (a + 1) ELSE 0
    ELSE retry_delay

\* func returns: safe_api_call returns its result
CallSucceeds ==
    /\ api_status = "running"
    /\ attempt < max_retries
    /\ api_status' = "returned"
    /\ UNCHANGED <<attempt, waits, errors, last_exception>>
    /\ UNCHANGED <<extractVars, saveVars, mainVars>>

\* func raises e: the except clause logs, waits, records e; after the last
\* attempt the loop ends and last_exception is raised
CallFails(e) ==
    /\ api_status = "running"
    /\ attempt < max_retries
    /\ errors' = Append(errors, e)
    /\ waits' = Append(waits, RetryWait(e, attempt))
    /\ last_exception' = Some(e)
    /\ attempt' = attempt + 1
    /\ api_status' = IF attempt + 1 = max_retries THEN "raised" ELSE "running"
    /\ UNCHANGED <<extractVars, saveVars, mainVars>>

\* a new call of safe_api_call
CallAgain ==
    /\ api_status \in {"returned", "raised"}
    /\ attempt' = 0
    /\ waits' = <<>>
    /\ errors' = <<>>
    /\ api_status' = "running"
    /\ last_exception' = None
    /\ UNCHANGED <<extractVars, saveVars, mainVars>>

RetryIdle ==
    /\ attempt = 0
    /\ waits = <<>>
    /\ errors = <<>>
    /\ api_status = "running"
    /\ last_exception = None

ExtractIdle ==
    /\ submission = None
    /\ epc = "idle"
    /\ idx = 0
    /\ top_comments = <<>>
    /\ post_data = None
    /\ replyFaultAt = -1
    /\ outerFault = FALSE

SaveIdle ==
    /\ dataset = None
    /\ prevDataset = None
    /\ posts_arg = <<>>
    /\ save_outcome = "none"

MainIdle ==
    /\ run = 0
    /\ mpc = "idle"
    /\ si = 0
    /\ ki = 0
    /\ posts_data = <<>>
    /\ all_posts_data = <<>>
    /\ unique_posts = <<>>
    /\ queried = {}
    /\ okRecords = <<>>
    /\ firstFailed = None

InitRetry == RetryIdle /\ ExtractIdle /\ SaveIdle /\ MainIdle

NextRetry ==
    \/ CallSucceeds
    \/ \E e \in ApiErrors : CallFails(e)
    \/ CallAgain

SpecRetry == InitRetry /\ [][NextRetry]_vars

-----------------------------------------------------------------------------
(* Predicate filters                                                       *)

matches_keywords(text, kws) ==
    IF text = <<>> THEN FALSE
    ELSE \E j \in 1..Len(kws) : Contains(lower(kws[j]), lower(text))

is_in_date_range(post_timestamp) ==
    start_date <= post_timestamp /\ post_timestamp <= end_date

\* (variant) the threshold taken as exclusive
meets_upvote_threshold_strict(score) == score > min_upvotes

meets_upvote_threshold(score) == score >= min_upvotes

-----------------------------------------------------------------------------
(* datetime.fromtimestamp(ts, tz=utc).strftime('%Y-%m-%d %H:%M:%S')        *)

Pad2(n) == IF n < 10 THEN <<"0">> \o NatText(n) ELSE NatText(n)

Pad4(n) ==
    IF n < 10 THEN <<"0","0","0">> \o NatText(n)
    ELSE IF n < 100 THEN <<"0","0">> \o NatText(n)
    ELSE IF n < 1000 THEN <<"0">> \o NatText(n)
    ELSE NatText(n)

\* proleptic Gregorian date of a day count since 1970-01-01
CivilFromDays(days) ==
    LET z == days + 719468
        era == z \div 146097
        doe == z - era * 146097
        yoe == (doe - doe \div 1460 + doe \div 36524 - doe \div 146096) \div 365
        doy == doe - (365 * yoe + yoe \div 4 - yoe \div 100)
        mp == (5 * doy + 2) \div 153
        d == doy - (153 * mp + 2) \div 5 + 1
        m == IF mp < 10 THEN mp + 3 ELSE mp - 9
        y == yoe + era * 400 + (IF m <= 2 THEN 1 ELSE 0)
    IN  [year |-> y, month |-> m, day |-> d]

FormatDate(ts) ==
    LET c == CivilFromDays(ts \div 86400)
        secs == ts % 86400
    IN  Pad4(c.year) \o <<"-">> \o Pad2(c.month) \o <<"-">> \o Pad2(c.day) \o <<" ">>
        \o Pad2(secs \div 3600) \o <<":">> \o Pad2((secs % 3600) \div 60)
        \o <<":">> \o Pad2(secs % 60)

-----------------------------------------------------------------------------
(* Candidate items and their replies                                       *)

Deleted == <<"[","d","e","l","e","t","e","d","]">>
RedditUrl == <<"h","t","t","p","s",":","/","/","w","w","w",".","r","e","d","d","i","t",".","c","o","m">>

CommentSliceLen == 5
CommentBodyMax == 500
ContentMax == 2000

\* how many filler characters make a reply body longer than CommentBodyMax
FillLen == 520

Filler == [i \in 1..FillLen |-> "z"]

\* a reply: hasBody models hasattr(comment, 'body'); author <<>> is None
rKw == [hasBody |-> TRUE, body |-> <<"l","o","s","t"," ","i","t"," ","a","l","l"," ","G","A","M","B","L","I","N","G">>,
        author |-> <<"b","o","b">>, score |-> 3, created_utc |-> start_date + 60]
rKw2 == [hasBody |-> TRUE, body |-> <<"m","y"," ","s","h","o","w","c","a","s","e"," ","o","p","e","n","i","n","g">>,
         author |-> <<"n","u","l","l">>, score |-> -2, created_utc |-> start_date + 61]
rDeleted == [hasBody |-> TRUE, body |-> Deleted,
             author |-> <<>>, score |-> 1, created_utc |-> start_date + 62]
rEmpty == [hasBody |-> TRUE, body |-> <<>>,
           author |-> <<"b","o","b">>, score |-> 1, created_utc |-> start_date + 63]
rNoKw == [hasBody |-> TRUE, body |-> <<"n","i","c","e"," ","s","k","i","n","s">>,
          author |-> <<"b","o","b">>, score |-> 7, created_utc |-> start_date + 64]
rLong == [hasBody |-> TRUE, body |-> <<"L","o","o","t"," ","B","o","x"," ","o","d","d","s"," ">> \o Filler,
          author |-> <<>>, score |-> 12, created_utc |-> start_date + 65]
rNoBody == [hasBody |-> FALSE, body |-> <<>>,
            author |-> <<>>, score |-> 0, created_utc |-> start_date + 66]

CommentLists == {
    <<>>,
    <<rNoKw, rKw>>,
    <<rKw, rDeleted, rNoKw, rEmpty, rLong, rKw2, rKw>>,
    <<rLong, rKw2, rNoBody, rKw, rKw2, rKw>> }

Titles == { <<"h","e","l","l","o"," ","w","o","r","l","d">>, <<"G","A","M","B","L","I","N","G"," ","r","u","i","n","e","d"," ","m","e">> }
Selftexts == { <<>>, <<"m","y"," ","s","h","o","w","c","a","s","e"," ","o","p","e","n","i","n","g">>, <<"n","i","c","e"," ","s","k","i","n","s">> }
Scores == { min_upvotes - 1, min_upvotes, min_upvotes + 5 }
Timestamps == { start_date - 1, start_date, end_date, end_date + 1 }

MkSubmission(id, title, selftext, score, ts, author, flair, comments) ==
    [id |-> id, title |-> title, selftext |-> selftext, score |-> score,
     created_utc |-> ts, author |-> author, subreddit |-> subreddits[2],
     permalink |-> <<"/","r","/","c","s","g","o","/","c","o","m","m","e","n","t","s","/">> \o id, link_flair_text |-> flair,
     num_comments |-> Len(comments), comments |-> comments]

Candidates ==
    { MkSubmission(<<"1","g","m","5","x","2">>, t, b, s, ts, <<"b","o","b">>, <<>>, cl) :
        t \in Titles, b \in Selftexts, s \in Scores, ts \in Timestamps,
        cl \in CommentLists }

-----------------------------------------------------------------------------
(* extract_post_data                                                       *)

\* the dict appended for a kept comment
CommentSummary(c) ==
    [author |-> IF c.author # <<>> THEN c.author ELSE Deleted,
     body |-> Prefix(c.body, CommentBodyMax),
     score |-> c.score,
     created_utc |-> c.created_utc]

\* the two ifs guarding the append
KeepComment(c) ==
    /\ c.hasBody
    /\ c.body # <<>>
    /\ c.body # Deleted
    /\ matches_keywords(c.body, keywords)

\* submission.comments.list()[:5]
\* (variant) the list without the slice
FirstCommentsAll(s) == s.comments

FirstComments(s) == Prefix(s.comments, CommentSliceLen)

\* json.dumps of the list of comment dicts, as text: the entries in list order,
\* each with its four values in key order (keys and quoting left out)
RECURSIVE JsonItems(_)
JsonItems(list) ==
    IF list = <<>> THEN <<>>
    ELSE LET c == Head(list)
         IN  (<<"{">> \o c.author \o <<"|">> \o c.body \o <<"|">> \o IntText(c.score)
              \o <<"|">> \o FloatText(c.created_utc) \o <<"}">>)
             \o JsonItems(Tail(list))

json_dumps(list) == <<"[">> \o JsonItems(list) \o <<"]">>

\* comments_json
CommentsJson(list) == IF list # <<>> THEN json_dumps(list) ELSE <<>>

\* matches_keywords on title / selftext and their combination
PassesKeyword(s) ==
    matches_keywords(s.title, keywords) \/ matches_keywords(s.selftext, keywords)

\* the post_data dict
PostData(s, comments) ==
    [post_id |-> s.id,
     title |-> s.title,
     author |-> IF s.author # <<>> THEN s.author ELSE Deleted,
     content |-> IF s.selftext # <<>> THEN Prefix(s.selftext, ContentMax) ELSE <<>>,
     upvotes |-> IntText(s.score),
     timestamp |-> FloatText(s.created_utc),
     date |-> FormatDate(s.created_utc),
     subreddit |-> s.subreddit,
     url |-> RedditUrl \o s.permalink,
     flair |-> IF s.link_flair_text # <<>> THEN s.link_flair_text ELSE <<>>,
     comment_count |-> IntText(s.num_comments),
     top_comments |-> CommentsJson(comments)]

Sub == submission[1]

\* lines 271-282: the three filters, in order
ExtractFilters ==
    /\ epc = "filters"
    /\ IF ~meets_upvote_threshold(Sub.score) THEN
            post_data' = None /\ epc' = "returned"
       ELSE IF ~is_in_date_range(Sub.created_utc) THEN
            post_data' = None /\ epc' = "returned"
       ELSE IF ~PassesKeyword(Sub) THEN
            post_data' = None /\ epc' = "returned"
       ELSE post_data' = post_data /\ epc' = "expand"
    /\ UNCHANGED <<submission, idx, top_comments, replyFaultAt, outerFault>>
    /\ UNCHANGED <<retryVars, saveVars, mainVars>>

\* an exception in the outer try while the filters read the submission
ExtractFiltersRaise ==
    /\ epc = "filters"
    /\ outerFault' = TRUE
    /\ post_data' = None
    /\ epc' = "returned"
    /\ UNCHANGED <<submission, idx, top_comments, replyFaultAt>>
    /\ UNCHANGED <<retryVars, saveVars, mainVars>>

\* submission.comments.replace_more(limit=0) returns
ReplaceMore ==
    /\ epc = "expand"
    /\ top_comments' = <<>>
    /\ idx' = 1
    /\ epc' = IF FirstComments(Sub) = <<>> THEN "build" ELSE "read"
    /\ UNCHANGED <<submission, post_data, replyFaultAt, outerFault>>
    /\ UNCHANGED <<retryVars, saveVars, mainVars>>

\* replace_more raises: caught by the inner except, top_comments stays []
ReplaceMoreRaises ==
    /\ epc = "expand"
    /\ top_comments' = <<>>
    /\ replyFaultAt' = 0
    /\ epc' = "build"
    /\ UNCHANGED <<submission, idx, post_data, outerFault>>
    /\ UNCHANGED <<retryVars, saveVars, mainVars>>

\* one iteration of the for loop over the sliced comment list
ReadComment ==
    /\ epc = "read"
    /\ idx <= Len(FirstComments(Sub))
    /\ LET c == FirstComments(Sub)[idx]
       IN  top_comments' = IF KeepComment(c)
                           THEN Append(top_comments, CommentSummary(c))
                           ELSE top_comments
    /\ idx' = idx + 1
    /\ epc' = IF idx = Len(FirstComments(Sub)) THEN "build" ELSE "read"
    /\ UNCHANGED <<submission, post_data, replyFaultAt, outerFault>>
    /\ UNCHANGED <<retryVars, saveVars, mainVars>>

\* (variant) the handler of a failed read also empties top_comments
ReadCommentRaisesClears ==
    /\ epc = "read"
    /\ idx <= Len(FirstComments(Sub))
    /\ replyFaultAt' = idx
    /\ top_comments' = <<>>
    /\ epc' = "build"
    /\ UNCHANGED <<submission, idx, post_data, outerFault>>
    /\ UNCHANGED <<retryVars, saveVars, mainVars>>

\* reading comment idx raises: caught by the inner except, which leaves
\* top_comments as the loop built it so far
ReadCommentRaises ==
    /\ epc = "read"
    /\ idx <= Len(FirstComments(Sub))
    /\ replyFaultAt' = idx
    /\ epc' = "build"
    /\ UNCHANGED <<submission, idx, top_comments, post_data, outerFault>>
    /\ UNCHANGED <<retryVars, saveVars, mainVars>>

\* lines 301-319: serialise the comments, build and return post_data
BuildPostData ==
    /\ epc = "build"
    /\ post_data' = Some(PostData(Sub, top_comments))
    /\ epc' = "returned"
    /\ UNCHANGED <<submission, idx, top_comments, replyFaultAt, outerFault>>
    /\ UNCHANGED <<retryVars, saveVars, mainVars>>

\* an exception in the outer try while post_data is built: logged, None returned
BuildRaises ==
    /\ epc = "build"
    /\ outerFault' = TRUE
    /\ post_data' = None
    /\ epc' = "returned"
    /\ UNCHANGED <<submission, idx, top_comments, replyFaultAt>>
    /\ UNCHANGED <<retryVars, saveVars, mainVars>>

InitExtract ==
    /\ RetryIdle /\ SaveIdle /\ MainIdle
    /\ submission \in {Some(s) : s \in Candidates}
    /\ epc = "filters"
    /\ idx = 0
    /\ top_comments = <<>>
    /\ post_data = None
    /\ replyFaultAt = -1
    /\ outerFault = FALSE

NextExtract ==
    \/ ExtractFilters
    \/ ExtractFiltersRaise
    \/ ReplaceMore
    \/ ReplaceMoreRaises
    \/ ReadComment
    \/ ReadCommentRaises
    \/ BuildPostData
    \/ BuildRaises

SpecExtract == InitExtract /\ [][NextExtract]_vars

-----------------------------------------------------------------------------
(* The dataset file and pandas' reading and writing of it                  *)
(*                                                                         *)
(* A post (a Python dict) is a function from its keys to cells; a cell is  *)
(* the text of the value. The file is None (absent) or Some(rows), each    *)
(* row a function from the file's columns to the cell text written.        *)

column_order == <<"post_id", "title", "author", "content", "upvotes", "timestamp",
                  "date", "subreddit", "url", "flair", "comment_count", "top_comments">>

Columns == Range(column_order)

\* the cell texts read_csv takes for a missing value (its default na_values)
NaValues == {
    <<>>,
    <<"#","N","/","A">>,
    <<"#","N","/","A"," ","N","/","A">>,
    <<"#","N","A">>,
    <<"-","1",".","#","I","N","D">>,
    <<"-","1",".","#","Q","N","A","N">>,
    <<"-","N","a","N">>,
    <<"-","n","a","n">>,
    <<"1",".","#","I","N","D">>,
    <<"1",".","#","Q","N","A","N">>,
    <<"<","N","A",">">>,
    <<"N","/","A">>,
    <<"N","A">>,
    <<"N","U","L","L">>,
    <<"N","a","N">>,
    <<"N","o","n","e">>,
    <<"n","/","a">>,
    <<"n","a","n">>,
    <<"n","u","l","l">> }

Digits == Range(DigitChars)

Unsigned(t) == IF t # <<>> /\ t[1] = "-" THEN Tail(t) ELSE t

\* text that read_csv parses as an integer
IsIntText(t) ==
    /\ Unsigned(t) # <<>>
    /\ \A i \in 1..Len(Unsigned(t)) : Unsigned(t)[i] \in Digits

\* text that read_csv parses as a float: digits, a point, digits
IsFloatText(t) ==
    LET u == Unsigned(t)
    IN  \E p \in 2..(Len(u) - 1) :
            /\ u[p] = "."
            /\ \A i \in 1..Len(u) : i # p => u[i] \in Digits

RECURSIVE StripLeadingZeros(_)
StripLeadingZeros(d) ==
    IF Len(d) > 1 /\ d[1] = "0" THEN StripLeadingZeros(Tail(d)) ELSE d

RECURSIVE StripTrailingZeros(_)
StripTrailingZeros(d) ==
    IF Len(d) > 1 /\ d[Len(d)] = "0" THEN StripTrailingZeros(SubSeq(d, 1, Len(d) - 1)) ELSE d

\* str() of the int64 parsed from t
IntCanon(t) ==
    LET d == StripLeadingZeros(Unsigned(t))
    IN  IF t[1] = "-" /\ d # <<"0">> THEN <<"-">> \o d ELSE d

\* str() of the float64 parsed from t (an integer or a decimal text)
FloatCanon(t) ==
    IF IsIntText(t) THEN IntCanon(t) \o <<".", "0">>
    ELSE LET u == Unsigned(t)
             p == CHOOSE q \in 1..Len(u) : u[q] = "."
             whole == StripLeadingZeros(SubSeq(u, 1, p - 1))
             frac == StripTrailingZeros(SubSeq(u, p + 1, Len(u)))
         IN  (IF t[1] = "-" THEN <<"-">> ELSE <<>>) \o whole \o <<".">> \o frac

\* a value of a DataFrame column; NaN is the missing value
NaN == [nan |-> TRUE, text |-> <<"n","a","n">>]
Val(t) == [nan |-> FALSE, text |-> t]

\* the dtype pd.read_csv infers for a column from all its cells: int64 when
\* every cell is an integer, float64 when every cell is a number or missing,
\* object otherwise
ColumnType(cells) ==
    LET present == {k \in 1..Len(cells) : cells[k] \notin NaValues}
    IN  IF present = 1..Len(cells) /\ \A k \in present : IsIntText(cells[k])
        THEN "int64"
        ELSE IF \A k \in present : IsIntText(cells[k]) \/ IsFloatText(cells[k])
        THEN "float64"
        ELSE "object"

\* the value read for a cell of a column of that dtype
ReadValue(dtype, cell) ==
    IF cell \in NaValues THEN NaN
    ELSE IF dtype = "int64" THEN Val(IntCanon(cell))
    ELSE IF dtype = "float64" THEN Val(FloatCanon(cell))
    ELSE Val(cell)

\* existing_df = pd.read_csv(filename)
read_csv(rows) ==
    LET dtype == [c \in Columns |-> ColumnType([k \in 1..Len(rows) |-> rows[k][c]])]
    IN  [i \in 1..Len(rows) |-> [c \in Columns |-> ReadValue(dtype[c], rows[i][c])]]

\* Series.astype(str)
astype_str(v) == v.text

\* the cell to_csv writes for a value (na_rep is '')
CsvCell(v) == IF v.nan THEN <<>> ELSE v.text

\* df.to_csv(filename, index=False)
to_csv(frame) == [i \in 1..Len(frame) |-> [c \in DOMAIN frame[i] |-> CsvCell(frame[i][c])]]

\* pd.DataFrame(posts): a column per key of any post, NaN where a post lacks it
FrameColumns(posts) == UNION {DOMAIN posts[i] : i \in 1..Len(posts)}

DataFrame(posts) ==
    [i \in 1..Len(posts) |->
        [c \in FrameColumns(posts) |->
            IF c \in DOMAIN posts[i] THEN Val(posts[i][c]) ELSE NaN]]

\* lines 408-412: add each missing column filled with '', then df[column_order]
WithAllColumns(frame) ==
    [i \in 1..Len(frame) |->
        [c \in Columns |-> IF c \in DOMAIN frame[i] THEN frame[i][c] ELSE Val(<<>>)]]

\* new_df[column_order]
SelectColumns(frame) == [i \in 1..Len(frame) |-> [c \in Columns |-> frame[i][c]]]

\* [post for post in posts_data if str(post['post_id']) not in existing_ids]
RECURSIVE NewPosts(_, _)
NewPosts(posts, existing_ids) ==
    IF posts = <<>> THEN <<>>
    ELSE (IF Head(posts)["post_id"] \notin existing_ids THEN <<Head(posts)>> ELSE <<>>)
         \o NewPosts(Tail(posts), existing_ids)

\* save_to_csv(posts_data) against the file: the outcome and the file after it
save_to_csv(posts, file) ==
    IF posts = <<>> THEN [outcome |-> "nodata", file |-> file]
    ELSE IF file = None THEN
        [outcome |-> "created", file |-> Some(to_csv(WithAllColumns(DataFrame(posts))))]
    ELSE
        LET existing_df == read_csv(file[1])
            existing_ids == {astype_str(existing_df[i]["post_id"]) : i \in 1..Len(existing_df)}
        IN  IF \E i \in 1..Len(posts) : "post_id" \notin DOMAIN posts[i] THEN
                \* post['post_id'] raises KeyError
                [outcome |-> "raised", file |-> file]
            ELSE LET new_posts == NewPosts(posts, existing_ids)
                 IN  IF new_posts = <<>> THEN [outcome |-> "unchanged", file |-> file]
                     ELSE IF ~(Columns \subseteq FrameColumns(new_posts)) THEN
                        \* new_df[column_order] raises KeyError
                        [outcome |-> "raised", file |-> file]
                     ELSE [outcome |-> "appended",
                           file |-> Some(to_csv(existing_df
                                                \o SelectColumns(DataFrame(new_posts))))]

-----------------------------------------------------------------------------
(* Sample candidates of the persister and of main()                        *)

\* a qualifying text post; an id is an opaque string of lower-case letters and
\* digits
MkPost(id, author, score) ==
    MkSubmission(id, <<"G","A","M","B","L","I","N","G"," ","r","u","i","n","e","d"," ","m","e">>, <<>>, score, start_date + 3600,
                 author, <<>>, <<>>)

sA == MkPost(<<"1","g","m","5","x","2">>, <<"b","o","b">>, 10)
sA2 == MkPost(<<"1","g","m","5","x","2">>, <<"a","l","i","c","e">>, 11)
sNullId == MkPost(<<"n","u","l","l">>, <<"b","o","b">>, 10)
s07 == MkPost(<<"0","7">>, <<"b","o","b">>, 10)
sNull == MkPost(<<"1","g","m","5","x","3">>, <<"n","u","l","l">>, 10)
sLow == MkPost(<<"1","g","m","5","x","4">>, <<"b","o","b">>, min_upvotes - 1)
sB == MkPost(<<"1","g","m","5","x","5">>, <<"b","o","b">>, 10)

WithoutKey(post, key) == [c \in DOMAIN post \ {key} |-> post[c]]

\* the posts save_to_csv is called with; the last one lacks the flair key
SavePosts == { PostData(sA, <<>>), PostData(sA2, <<>>), PostData(s07, <<>>),
               PostData(sNullId, <<>>), PostData(sNull, <<>>),
               WithoutKey(PostData(sB, <<>>), "flair") }

\* the submissions a search may return
MainSubmissions == { sA, s07, sNullId, sLow }

MaxBatch == 2
MaxRows == 4
MaxRuns == 3
MaxSubreddits == 2
MaxKeywords == 2
MaxResults == 1
MaxCollected == 4

\* all sequences over S of length at most n
RECURSIVE SeqsUpTo(_, _)
SeqsUpTo(S, n) ==
    IF n = 0 THEN {<<>>}
    ELSE LET shorter == SeqsUpTo(S, n - 1)
         IN  shorter \cup {Append(q, x) : q \in shorter, x \in S}

RowCount(file) == IF file = None THEN 0 ELSE Len(file[1])

-----------------------------------------------------------------------------
(* save_to_csv as an operation on the file                                 *)

SaveToCsv(batch) ==
    /\ RowCount(dataset) + Len(batch) <= MaxRows
    /\ LET r == save_to_csv(batch, dataset)
       IN  /\ dataset' = r.file
           /\ save_outcome' = r.outcome
    /\ prevDataset' = dataset
    /\ posts_arg' = batch
    /\ UNCHANGED <<retryVars, extractVars, mainVars>>

InitSave == RetryIdle /\ ExtractIdle /\ SaveIdle /\ MainIdle

\* the batches save_to_csv is called with
Batches == SeqsUpTo(SavePosts, MaxBatch)

NextSave == \E batch \in Batches : SaveToCsv(batch)

SpecSave == InitSave /\ [][NextSave]_vars

-----------------------------------------------------------------------------
(* search_subreddit and main                                               *)

\* extract_post_data run to its return with no exception: the record or None
RECURSIVE KeptComments(_)
KeptComments(list) ==
    IF list = <<>> THEN <<>>
    ELSE (IF KeepComment(Head(list)) THEN <<CommentSummary(Head(list))>> ELSE <<>>)
         \o KeptComments(Tail(list))

extract_post_data(s) ==
    IF ~meets_upvote_threshold(s.score) THEN None
    ELSE IF ~is_in_date_range(s.created_utc) THEN None
    ELSE IF ~PassesKeyword(s) THEN None
    ELSE Some(PostData(s, KeptComments(FirstComments(s))))

\* the posts_data.append loop over one query's search_results
RECURSIVE ExtractResults(_)
ExtractResults(results) ==
    IF results = <<>> THEN <<>>
    ELSE extract_post_data(Head(results)) \o ExtractResults(Tail(results))

\* the result lists a query may return, each with the records extracted from it
ResultLists == SeqsUpTo(MainSubmissions, MaxResults)

RecordsOf == [results \in ResultLists |-> ExtractResults(results)]

\* lines 475-480: keep a post unless its post_id is in seen_ids
RECURSIVE DedupeFrom(_, _)
DedupeFrom(list, seen_ids) ==
    IF list = <<>> THEN <<>>
    ELSE IF Head(list)["post_id"] \in seen_ids THEN DedupeFrom(Tail(list), seen_ids)
    ELSE <<Head(list)>> \o DedupeFrom(Tail(list), seen_ids \cup {Head(list)["post_id"]})

\* (variant) keep the last occurrence of each post_id
RECURSIVE DedupeKeepLast(_)
DedupeKeepLast(list) ==
    IF list = <<>> THEN <<>>
    ELSE IF \E i \in 2..Len(list) : list[i]["post_id"] = Head(list)["post_id"]
         THEN DedupeKeepLast(Tail(list))
         ELSE <<Head(list)>> \o DedupeKeepLast(Tail(list))

Dedupe(list) == DedupeFrom(list, {})

AllQueries == (1..MaxSubreddits) \X (1..MaxKeywords)

\* main() up to the subreddit loop: the API is initialised and answers
StartRun ==
    /\ mpc = "idle"
    /\ run' = run + 1
    /\ mpc' = "searching"
    /\ si' = 1
    /\ ki' = 1
    /\ posts_data' = <<>>
    /\ all_posts_data' = <<>>
    /\ unique_posts' = <<>>
    /\ queried' = {}
    /\ okRecords' = <<>>
    /\ firstFailed' = None
    /\ UNCHANGED <<retryVars, extractVars, saveVars>>

\* initialize_reddit_api raises or check_reddit_api_status is False: main ends
\* before any query
SetupFails ==
    /\ mpc = "idle"
    /\ run' = run + 1
    /\ mpc' = "aborted"
    /\ si' = 0
    /\ ki' = 0
    /\ posts_data' = <<>>
    /\ all_posts_data' = <<>>
    /\ unique_posts' = <<>>
    /\ queried' = {}
    /\ okRecords' = <<>>
    /\ firstFailed' = None
    /\ UNCHANGED <<retryVars, extractVars, saveVars>>

\* the end of one keyword's iteration holding `collected` as posts_data: the
\* next keyword, or search_subreddit returns and main extends all_posts_data
\* and goes to the next subreddit, or leaves the loop
Advance(collected) ==
    IF ki < MaxKeywords THEN
        /\ ki' = ki + 1
        /\ si' = si
        /\ posts_data' = collected
        /\ all_posts_data' = all_posts_data
        /\ mpc' = "searching"
    ELSE
        /\ ki' = 1
        /\ si' = si + 1
        /\ posts_data' = <<>>
        /\ all_posts_data' = all_posts_data \o collected
        /\ mpc' = IF si < MaxSubreddits THEN "searching" ELSE "collected"

\* (variant) a failed keyword ends the search of its subreddit
AdvanceAfterFailureBreaks(collected) ==
    /\ ki' = 1
    /\ si' = si + 1
    /\ posts_data' = <<>>
    /\ all_posts_data' = all_posts_data \o collected
    /\ mpc' = IF si < MaxSubreddits THEN "searching" ELSE "collected"

\* line 370-372: except ... continue
AdvanceAfterFailure(collected) == Advance(collected)

\* safe_api_call returns search_results for keyword ki of subreddit si; every
\* result is extracted and the records appended to posts_data
QueryOk(results) ==
    /\ mpc = "searching"
    /\ LET records == RecordsOf[results]
       IN  /\ Len(okRecords) + Len(records) <= MaxCollected
           /\ okRecords' = okRecords \o records
           /\ Advance(posts_data \o records)
    /\ queried' = queried \cup {<<si, ki>>}
    /\ UNCHANGED <<run, unique_posts, firstFailed>>
    /\ UNCHANGED <<retryVars, extractVars, saveVars>>

\* safe_api_call raises after its last attempt: caught at the keyword, logged
QueryFails ==
    /\ mpc = "searching"
    /\ AdvanceAfterFailure(posts_data)
    /\ queried' = queried \cup {<<si, ki>>}
    /\ firstFailed' = IF firstFailed = None THEN Some(<<si, ki>>) ELSE firstFailed
    /\ UNCHANGED <<run, unique_posts, okRecords>>
    /\ UNCHANGED <<retryVars, extractVars, saveVars>>

\* lines 474-489: dedupe, then save_to_csv when anything was collected
Finish ==
    /\ mpc = "collected"
    /\ unique_posts' = Dedupe(all_posts_data)
    /\ prevDataset' = dataset
    /\ posts_arg' = Dedupe(all_posts_data)
    /\ IF Dedupe(all_posts_data) # <<>>
       THEN LET r == save_to_csv(Dedupe(all_posts_data), dataset)
            IN  /\ dataset' = r.file
                /\ save_outcome' = r.outcome
                /\ mpc' = IF r.outcome = "raised" THEN "aborted" ELSE "done"
       ELSE /\ dataset' = dataset
            /\ save_outcome' = "none"
            /\ mpc' = "done"
    /\ UNCHANGED <<run, si, ki, posts_data, all_posts_data, queried, okRecords,
                   firstFailed>>
    /\ UNCHANGED <<retryVars, extractVars>>

\* the program is started again after a run has ended
RunAgain ==
    /\ mpc \in {"done", "aborted"}
    /\ run < MaxRuns
    /\ mpc' = "idle"
    /\ si' = 0
    /\ ki' = 0
    /\ posts_data' = <<>>
    /\ all_posts_data' = <<>>
    /\ unique_posts' = <<>>
    /\ queried' = {}
    /\ okRecords' = <<>>
    /\ firstFailed' = None
    /\ UNCHANGED run
    /\ UNCHANGED <<retryVars, extractVars, saveVars>>

\* datasets earlier runs have left behind
PriorDatasets ==
    { None,
      save_to_csv(<<PostData(sA, <<>>), PostData(s07, <<>>)>>, None).file }

\* one run of main() against no dataset or one an earlier run has written
InitRun ==
    /\ RetryIdle /\ ExtractIdle /\ MainIdle
    /\ dataset \in PriorDatasets
    /\ prevDataset = None
    /\ posts_arg = <<>>
    /\ save_outcome = "none"

NextRun ==
    \/ StartRun
    \/ SetupFails
    \/ \E results \in ResultLists : QueryOk(results)
    \/ QueryFails
    \/ Finish

SpecRun == InitRun /\ [][NextRun]_vars

\* any number of runs of main(), the first with no dataset
InitMain == RetryIdle /\ ExtractIdle /\ SaveIdle /\ MainIdle

NextMain ==
    \/ StartRun
    \/ SetupFails
    \/ \E results \in ResultLists : QueryOk(results)
    \/ QueryFails
    \/ Finish
    \/ RunAgain

SpecMain == InitMain /\ [][NextMain]_vars

-----------------------------------------------------------------------------
(* C1, C2, C3, C10: the persisted dataset                                  *)

Rows(file) == IF file = None THEN <<>> ELSE file[1]

PostIds(list) == {list[i]["post_id"] : i \in 1..Len(list)}

DistinctIds(list) ==
    \A i, j \in 1..Len(list) : i # j => list[i]["post_id"] # list[j]["post_id"]

\* the row a post is written as: its cells, empty where it has no value
RowOf(post) == [c \in Columns |-> IF c \in DOMAIN post THEN post[c] ELSE <<>>]

\* C1: after any sequence of runs of main() that starts with no dataset, no
\* two rows of the dataset have the same post_id.
C1_PostIdsUnique == DistinctIds(Rows(dataset))

\* C2: a call of save_to_csv against an existing dataset keeps the rows it
\* had, in order and cell by cell, as a prefix, and the rows after them are
\* exactly the posts of the batch whose post_id no row had, in batch order.
C2_AppendOnly ==
    save_outcome \in {"appended", "unchanged"} =>
        LET old == Rows(prevDataset)
            new == Rows(dataset)
            fresh == SelectSeq(posts_arg, LAMBDA p : p["post_id"] \notin PostIds(old))
        IN  /\ Len(new) = Len(old) + Len(fresh)
            /\ \A i \in 1..Len(old) : new[i] = old[i]
            /\ \A k \in 1..Len(fresh) : new[Len(old) + k] = RowOf(fresh[k])

\* C3: saving a batch of posts with pairwise distinct post_id a second time,
\* right after a save of the same batch, adds no row, changes nothing in the
\* dataset and writes nothing.
C3_SecondSaveAddsNothing ==
    [][ ( /\ posts_arg' = posts_arg
          /\ posts_arg # <<>>
          /\ DistinctIds(posts_arg)
          /\ save_outcome \in {"created", "appended", "unchanged"} )
        => (dataset' = dataset /\ save_outcome' = "unchanged") ]_vars

\* C10: a save of posts that lack a column of the schema succeeds, on a new
\* dataset and on an existing one alike, and every row written has the whole
\* column set, the missing column empty.
C10_MissingColumnIsFilled ==
    posts_arg # <<>> =>
        /\ save_outcome # "raised"
        /\ \A i \in 1..Len(Rows(dataset)) : DOMAIN Rows(dataset)[i] = Columns

-----------------------------------------------------------------------------
(* C5, C6: one run of main()                                               *)

\* the posts of list whose post_id no earlier post of list has, in order
FirstOccurrences(list) ==
    LET at == SelectSeq([i \in 1..Len(list) |-> i],
                        LAMBDA i : \A j \in 1..(i - 1) :
                                        list[j]["post_id"] # list[i]["post_id"])
    IN  [k \in 1..Len(at) |-> list[at[k]]]

IdsOf(list) == [i \in 1..Len(list) |-> list[i]["post_id"]]

\* C5: main() dedupes the concatenation of the subreddits' record lists, in
\* subreddit order then encounter order, to the first occurrence of each
\* post_id, order kept.
C5_DedupeKeepsFirstOccurrences ==
    mpc = "done" =>
        /\ all_posts_data = okRecords
        /\ unique_posts = FirstOccurrences(all_posts_data)
        /\ DistinctIds(unique_posts)
        /\ PostIds(unique_posts) = PostIds(all_posts_data)

\* post_ids a, b, a, c collected, deduplicated to a, b, c
C5_Witness ==
    /\ mpc = "done"
    /\ Len(all_posts_data) = 4
    /\ LET ids == IdsOf(all_posts_data)
       IN  /\ ids[1] = ids[3]
           /\ Cardinality({ids[1], ids[2], ids[4]}) = 3
           /\ IdsOf(unique_posts) = <<ids[1], ids[2], ids[4]>>

\* C6: a failed query never ends the run: every keyword of every subreddit is
\* still queried, and the records of the queries that succeeded, before or
\* after the failure, are all deduplicated and handed to save_to_csv, which
\* persists them; only a failed setup, before any query, ends a run early.
C6_FailedQueryDoesNotAbortRun ==
    /\ mpc = "aborted" => queried = {}
    /\ mpc \in {"collected", "done"} => queried = AllQueries
    /\ mpc = "done" =>
        /\ unique_posts = FirstOccurrences(okRecords)
        /\ okRecords = <<>> => dataset = prevDataset
        /\ okRecords # <<>> =>
            /\ posts_arg = unique_posts
            /\ save_outcome \in {"created", "appended", "unchanged"}
            /\ dataset = save_to_csv(FirstOccurrences(okRecords), prevDataset).file
            /\ prevDataset = None =>
                IdsOf(Rows(dataset)) = IdsOf(FirstOccurrences(okRecords))

\* the first query of the run failed, each of the three later ones (the other
\* keyword of that subreddit, both of the next subreddit) gave a record, and
\* the new ones were appended to the dataset
C6_Witness ==
    /\ mpc = "done"
    /\ firstFailed = Some(<<1, 1>>)
    /\ Len(okRecords) = 3
    /\ save_outcome = "appended"
    /\ Len(Rows(dataset)) > Len(Rows(prevDataset))

-----------------------------------------------------------------------------
(* C4, C8, C9: the extractor                                               *)

\* some configured keyword occurs in text, compared character by character
\* in lower case
HasKeyword(text) ==
    \E j \in 1..Len(keywords) : \E off \in 0..(Len(text) - Len(keywords[j])) :
        \A i \in 1..Len(keywords[j]) :
            LowerChar(text[off + i]) = LowerChar(keywords[j][i])

\* C4: extract_post_data returns a record exactly when the score is at least
\* the threshold, the creation time is inside the inclusive window and the
\* title or the body holds a keyword; in every other case, and whenever the
\* outer try catches an error, it returns None (it never raises).
C4_RecordIffAllFilters ==
    /\ epc \in {"idle", "filters", "expand", "read", "build", "returned"}
    /\ epc = "returned" =>
        /\ post_data # None <=>
            /\ ~outerFault
            /\ Sub.score >= min_upvotes
            /\ start_date <= Sub.created_utc
            /\ Sub.created_utc <= end_date
            /\ HasKeyword(Sub.title) \/ HasKeyword(Sub.selftext)
        /\ post_data # None => post_data[1].post_id = Sub.id

\* a record for a candidate exactly on the threshold, at the end of the window,
\* whose keyword is only in the body
C4_Witness ==
    /\ epc = "returned"
    /\ post_data # None
    /\ Sub.score = min_upvotes
    /\ Sub.created_utc = end_date
    /\ ~HasKeyword(Sub.title)
    /\ HasKeyword(Sub.selftext)

\* reply i of the flattened list qualifies
ReplyQualifies(c) ==
    /\ c.hasBody
    /\ c.body # <<>>
    /\ c.body # Deleted
    /\ HasKeyword(c.body)

ReplySummary(c) ==
    [author |-> IF c.author = <<>> THEN Deleted ELSE c.author,
     body |-> SubSeq(c.body, 1, IF Len(c.body) < 500 THEN Len(c.body) ELSE 500),
     score |-> c.score,
     created_utc |-> c.created_utc]

\* the summaries of the qualifying replies among the first n, in order
QualifyingSummaries(replies, n) ==
    LET m == IF Len(replies) < n THEN Len(replies) ELSE n
        at == SelectSeq([i \in 1..m |-> i], LAMBDA i : ReplyQualifies(replies[i]))
    IN  [j \in 1..Len(at) |-> ReplySummary(replies[at[j]])]

C9_ReplyErrorMeansNoReplies ==
    (epc = "returned" /\ replyFaultAt >= 0 /\ ~outerFault) =>
        /\ post_data # None
        /\ post_data[1].top_comments = <<>>

\* C9 (amended): whenever expanding or reading the replies raised, the
\* candidate is still emitted; its top_comments holds the summaries of the
\* qualifying replies read before the exception, so it is the empty string when
\* the expansion itself raised or no reply had been kept yet.
C9_ReplyErrorKeepsRepliesSoFar ==
    (epc = "returned" /\ replyFaultAt >= 0 /\ ~outerFault) =>
        LET done == IF replyFaultAt = 0 THEN 0 ELSE replyFaultAt - 1
            kept == QualifyingSummaries(Sub.comments, done)
        IN  /\ post_data # None
            /\ top_comments = kept
            /\ kept = <<>> => post_data[1].top_comments = <<>>
            /\ kept # <<>> => post_data[1].top_comments = json_dumps(kept)
            /\ replyFaultAt = 0 => post_data[1].top_comments = <<>>

\* reading a later reply raised after a reply had been kept
C9_Witness ==
    /\ epc = "returned"
    /\ post_data # None
    /\ replyFaultAt >= 2
    /\ top_comments # <<>>
    /\ post_data[1].top_comments # <<>>

-----------------------------------------------------------------------------
(* C7 *)

\* C7 (as stated): after every failed attempt k, whatever the failure, the wait
\* is k times the base retry delay.
C7_WaitIsAttemptTimesBase ==
    \A k \in 1..Len(waits) : waits[k] = k * retry_delay

\* C7 (amended): the wait after failed attempt k is k times the base delay only
\* for a Reddit API error whose message signals rate limiting; it is the base
\* delay for a client or unexpected error and there is no wait for any other
\* Reddit API error. At most max_retries attempts are made, and once the last
\* one has failed the last error is raised.
C7_BackoffByFailureKind ==
    /\ Len(errors) = attempt
    /\ Len(waits) = attempt
    /\ attempt <= max_retries
    /\ \A k \in 1..Len(waits) :
        LET e == errors[k]
            limited == \/ Contains(RateLimitWord, upper(e.msg))
                       \/ Contains(Code429, e.msg)
        IN  /\ (e.type = "RedditAPIException" /\ limited) => waits[k] = k * retry_delay
            /\ (e.type = "RedditAPIException" /\ ~limited) => waits[k] = 0
            /\ e.type # "RedditAPIException" => waits[k] = retry_delay
    /\ api_status = "raised" <=> attempt = max_retries
    /\ api_status = "raised" => last_exception = Some(errors[max_retries])

\* three failed attempts, rate-limited on the second and third, a client error first
C7_Witness ==
    /\ api_status = "raised"
    /\ errors[1].type = "ClientException"
    /\ waits = <<retry_delay, 2 * retry_delay, 3 * retry_delay>>

====
